---- MODULE Spec2Model ----
(***************************************************************************)
(* Model of pkg/scale: the cruiseControlScaler, which turns scaling        *)
(* intents (add brokers, remove brokers, rebalance disks) and readiness    *)
(* queries into calls against the Cruise Control client.                   *)
(*                                                                         *)
(* The scaler keeps no mutable state of its own (a logger and a client     *)
(* reference), so one behaviour of the model is one call: the action draws *)
(* the caller's arguments and the answers of the remote service, runs the  *)
(* whole method and records what it returned, which remote calls it made   *)
(* and what it logged.                                                     *)
(*                                                                         *)
(* Strings that are converted (broker IDs) are sequences of one-character  *)
(* strings, so that strconv.Atoi and strconv.Itoa are computed and not     *)
(* assumed. Go's int is 64 bits wide; values are kept as four 16-bit limbs *)
(* because TLC's integers are 32 bits wide.                                *)
(***************************************************************************)
EXTENDS Integers, Sequences, FiniteSets, TLC

VARIABLES
    pc,       \* "idle" before the call, "done" after it returned, "panic" if it panicked
    op,       \* the method that was called
    args,     \* its arguments (broker IDs, or desired broker states)
    calls,    \* the remote calls the method issued, in order, each with request and answer
    result,   \* the *Result it returned (add, remove, rebalance)
    err,      \* the error it returned
    status,   \* the CruiseControlStatus it returned (Status, IsReady)
    ok,       \* the bool it returned (IsReady, IsUp)
    brokers,  \* the []string it returned (BrokersWithState)
    log       \* the log entries it wrote

vars == <<pc, op, args, calls, result, err, status, ok, brokers, log>>

-----------------------------------------------------------------------------
(* Bounds of the model *)

MaxIDs == 2        \* longest list of broker IDs a caller passes
MaxBrokers == 2    \* most brokers in a cluster-load answer
MaxDisks == 2      \* most disks of a broker in a cluster-load answer
MaxGoals == 2      \* longest goal-readiness list in a state answer
MaxStates == 2     \* longest list of desired states passed to BrokersWithState

-----------------------------------------------------------------------------
(* Sequences *)

SeqsUpTo(S, n) == UNION {[1..k -> S] : k \in 0..n}

Range(s) == {s[i] : i \in 1..Len(s)}

-----------------------------------------------------------------------------
(* Errors, results *)

NoError == [nil |-> TRUE, msg |-> "", ids |-> <<>>]

\* An error value: its message text and the broker IDs the text quotes.
Error(msg, ids) == [nil |-> FALSE, msg |-> msg, ids |-> ids]

\* fmt.Sprintf("%v", err): the message of the error
Sprintf(e) == e.msg

CruiseControlTaskActive == "Active"
CruiseControlTaskCompleted == "Completed"
CruiseControlTaskCompletedWithError == "CompletedWithError"

NilResult == [nil |-> TRUE, TaskID |-> "", StartedAt |-> "", State |-> "", Err |-> ""]

Result(taskID, startedAt, state, e) ==
    [nil |-> FALSE, TaskID |-> taskID, StartedAt |-> startedAt, State |-> state, Err |-> e]

ZeroStatus ==
    [MonitorReady |-> FALSE, ExecutorReady |-> FALSE, AnalyzerReady |-> FALSE,
     ProposalReady |-> FALSE, GoalsReady |-> FALSE,
     MonitoredWindows |-> 0, MonitoringCoverage |-> 0]

\* One remote call: endpoint, request, and the answer (error, response).
Call(endpoint, req, e, resp) == [endpoint |-> endpoint, req |-> req, err |-> e, resp |-> resp]

LogEntry(level, msg, kv) == [level |-> level, msg |-> msg, kv |-> kv]

\* What the remote service can fail with.
RemoteErrors == {Error("connection refused", <<>>)}

-----------------------------------------------------------------------------
(* Integers and their conversions.                                         *)
(* A Go int is kept as a sign and a magnitude of four limbs of 16 bits,    *)
(* least significant first, with a flag for a magnitude beyond 64 bits.    *)

Base == 65536      \* one limb holds 16 bits
HalfBase == 32768  \* the sign bit of the top limb

Digits == <<"0", "1", "2", "3", "4", "5", "6", "7", "8", "9">>

DigitValue == [c \in Range(Digits) |-> (CHOOSE d \in 1..10 : Digits[d] = c) - 1]

IsDigit(c) == c \in DOMAIN DigitValue

ZeroMag == [l |-> <<0, 0, 0, 0>>, ovf |-> FALSE]

\* m * 10 + d on the limbs
MulAdd10(m, d) ==
    LET t1 == m.l[1] * 10 + d
        t2 == m.l[2] * 10 + (t1 \div Base)
        t3 == m.l[3] * 10 + (t2 \div Base)
        t4 == m.l[4] * 10 + (t3 \div Base)
    IN  [l |-> <<t1 % Base, t2 % Base, t3 % Base, t4 % Base>>,
         ovf |-> m.ovf \/ (t4 \div Base) > 0]

\* The value of a digit string, most significant digit first, onto m.
RECURSIVE Accumulate(_, _)
Accumulate(ds, m) ==
    IF ds = <<>> THEN m
    ELSE Accumulate(Tail(ds), MulAdd10(m, DigitValue[Head(ds)]))

Magnitude(ds) == Accumulate(ds, ZeroMag)

\* the magnitude fits a signed 64-bit int
InIntRange(neg, m) ==
    /\ ~m.ovf
    /\ \/ m.l[4] < HalfBase
       \/ neg /\ m.l[4] = HalfBase /\ m.l[3] = 0 /\ m.l[2] = 0 /\ m.l[1] = 0

\* strconv.Atoi: an optional sign, then one or more decimal digits, the value
\* within the range of int; otherwise a *NumError that quotes the input.
Atoi(s) ==
    LET signed == Len(s) > 0 /\ s[1] \in {"+", "-"}
        neg    == Len(s) > 0 /\ s[1] = "-"
        ds     == IF signed THEN Tail(s) ELSE s
        syntax == ds = <<>> \/ \E i \in 1..Len(ds) : ~IsDigit(ds[i])
        m      == Magnitude(ds)
    IN  IF syntax
        THEN [err |-> Error("strconv.Atoi: parsing: invalid syntax", <<s>>),
              neg |-> FALSE, mag |-> ZeroMag.l]
        ELSE IF ~InIntRange(neg, m)
        THEN [err |-> Error("strconv.Atoi: parsing: value out of range", <<s>>),
              neg |-> FALSE, mag |-> ZeroMag.l]
        ELSE [err |-> NoError, neg |-> neg /\ m.l # ZeroMag.l, mag |-> m.l]

\* int32(v): the low 32 bits of the two's complement of v, read as signed
Int32(v) ==
    LET lo == v.mag[1]
        hi == v.mag[2]
        \* the low 32 bits, unsigned, as two limbs
        u  == IF ~v.neg THEN <<lo, hi>>
              ELSE IF lo = 0 /\ hi = 0 THEN <<0, 0>>
              ELSE IF lo = 0 THEN <<0, Base - hi>>
              ELSE <<Base - lo, Base - 1 - hi>>
    IN  IF u[2] < HalfBase
        THEN u[2] * Base + u[1]
        ELSE (0 - (Base - 1 - u[2])) * Base - (Base - u[1])

RECURSIVE NatDigits(_)
NatDigits(n) ==
    IF n < 10 THEN <<Digits[n + 1]>>
    ELSE NatDigits(n \div 10) \o <<Digits[(n % 10) + 1]>>

\* strconv.Itoa of an int32 widened to int
Itoa(n) == IF n < 0 THEN <<"-">> \o NatDigits(0 - n) ELSE NatDigits(n)

-----------------------------------------------------------------------------
(* Readiness and status *)

MonitorStateRunning == "RUNNING"
ExecutorStateTypeNoTaskInProgress == "NO_TASK_IN_PROGRESS"
GoalReadinessStatusReady == "ready"

MonitorStates == {MonitorStateRunning, "LOADING"}
ExecutorStates == {ExecutorStateTypeNoTaskInProgress, "INTER_BROKER_REPLICA_MOVEMENT_TASK_IN_PROGRESS"}
GoalStatuses == {GoalReadinessStatusReady, "notReady"}
WindowCounts == {0, 3}
Coverages == {0, 100}

ZeroStateResponse ==
    [MonitorState |-> "", ExecutorState |-> "", IsProposalReady |-> FALSE,
     GoalReadiness |-> <<>>, NumMonitoredWindows |-> 0,
     MonitoringCoveragePercentage |-> 0]

\* The answers of the state endpoint: an error, or a state report.
StateAnswers ==
    {[err |-> e, resp |-> ZeroStateResponse] : e \in RemoteErrors}
    \cup
    {[err |-> NoError,
      resp |-> [MonitorState |-> m, ExecutorState |-> x, IsProposalReady |-> p,
                GoalReadiness |-> g, NumMonitoredWindows |-> w,
                MonitoringCoveragePercentage |-> c]] :
        m \in MonitorStates, x \in ExecutorStates, p \in BOOLEAN,
        g \in SeqsUpTo(GoalStatuses, MaxGoals), w \in WindowCounts, c \in Coverages}

\* A variant that looks at the first goal only.
GoalsReadyFirstOnly(goals) ==
    goals = <<>> \/ Head(goals) = GoalReadinessStatusReady

\* The loop of Status over the goal-readiness list: false at the first goal
\* that is not ready.
RECURSIVE GoalsReady(_)
GoalsReady(goals) ==
    IF goals = <<>> THEN TRUE
    ELSE IF Head(goals) # GoalReadinessStatusReady THEN FALSE
    ELSE GoalsReady(Tail(goals))

Status(answer) ==
    LET call == Call("state", [Verbose |-> TRUE], answer.err, answer.resp)
        resp == answer.resp
        goalsReady == GoalsReady(resp.GoalReadiness)
    IN  IF ~answer.err.nil
        THEN [calls  |-> <<call>>,
              log    |-> <<LogEntry("error", "failed to get Cruise Control state", answer.err)>>,
              status |-> ZeroStatus]
        ELSE [calls  |-> <<call>>,
              log    |-> <<>>,
              status |->
                [MonitorReady       |-> resp.MonitorState = MonitorStateRunning,
                 ExecutorReady      |-> resp.ExecutorState = ExecutorStateTypeNoTaskInProgress,
                 AnalyzerReady      |-> resp.IsProposalReady /\ goalsReady,
                 ProposalReady      |-> resp.IsProposalReady,
                 GoalsReady         |-> goalsReady,
                 MonitoredWindows   |-> resp.NumMonitoredWindows,
                 MonitoringCoverage |-> resp.MonitoringCoveragePercentage]]

\* CruiseControlStatus.IsReady
StatusIsReady(st) == st.AnalyzerReady /\ st.MonitorReady

IsReady(answer) ==
    LET s == Status(answer)
    IN  [calls  |-> s.calls,
         log    |-> Append(s.log, LogEntry("info", "cruise control readiness", s.status)),
         status |-> s.status,
         ok     |-> StatusIsReady(s.status)]

\* A variant that does not look at the error of the state query.
IsUpAlways(answer) ==
    [calls |-> <<Call("state", [Verbose |-> FALSE], answer.err, answer.resp)>>,
     ok    |-> TRUE]

IsUp(answer) ==
    [calls |-> <<Call("state", [Verbose |-> FALSE], answer.err, answer.resp)>>,
     ok    |-> answer.err.nil]

-----------------------------------------------------------------------------
(* Cluster load and broker states *)

KafkaBrokerAlive == "ALIVE"
KafkaBrokerDead == "DEAD"
KafkaBrokerNew == "NEW"
KafkaBrokerDemoted == "DEMOTED"
KafkaBrokerBadDisks == "BAD_DISKS"

KafkaBrokerState ==
    {KafkaBrokerAlive, KafkaBrokerDead, KafkaBrokerNew, KafkaBrokerDemoted, KafkaBrokerBadDisks}

\* Broker IDs as callers pass them: decimal strings, and strings that are not.
\* 4294967297 is 2^32 + 1.
IDStrings ==
    { <<"1">>, <<"2">>, <<"x">>, <<"-", "1">>,
      <<"4", "2", "9", "4", "9", "6", "7", "2", "9", "7">> }

\* Broker numbers the remote service reports.
BrokerNums == {1, 2, -1}

\* The broker numbers whose decimal form is among the IDs callers pass.
RequestedBrokerNums == {1, 2}

\* Lists without repetition: the service reports a broker once.
DistinctSeqs(S, n) ==
    {q \in SeqsUpTo(S, n) : \A i, j \in 1..Len(q) : i # j => q[i] # q[j]}

\* Lists without repetition, in ascending order.
AscendingSeqs(S, n) ==
    {q \in SeqsUpTo(S, n) : \A i, j \in 1..Len(q) : i < j => q[i] < q[j]}

BrokerStat(b, st, disks) == [Broker |-> b, BrokerState |-> st, DiskState |-> disks]

\* Cluster-load answers that differ in the brokers' states.
LoadAnswersByState(nums) ==
    {[err |-> e, Brokers |-> <<>>] : e \in RemoteErrors}
    \cup
    UNION {
      {[err |-> NoError,
        Brokers |-> [i \in 1..Len(ns) |-> BrokerStat(ns[i], sts[i], <<>>)]] :
          sts \in [1..Len(ns) -> KafkaBrokerState]} :
      ns \in DistinctSeqs(nums, MaxBrokers)}

\* What a submission (add, remove, rebalance) can answer: a task, an error with
\* a zero-valued response, or an error with no response at all.
SubmitAnswers ==
    {[err |-> NoError, resp |-> [nil |-> FALSE, TaskID |-> "task-1", Date |-> "date-1"]]}
    \cup
    {[err |-> e, resp |-> [nil |-> n, TaskID |-> "", Date |-> ""]] :
        e \in RemoteErrors, n \in BOOLEAN}

ProposalDataSourceValidWindows == "VALID_WINDOWS"

\* kafkaBrokerStatesToMap: the set of the listed states
kafkaBrokerStatesToMap(states) == Range(states)

\* stringSliceToMap: the set of the listed strings
stringSliceToMap(ids) == Range(ids)

\* A variant that does not filter by state.
RECURSIVE BrokerIDsAnyState(_, _)
BrokerIDsAnyState(bs, statesMap) ==
    IF bs = <<>> THEN <<>>
    ELSE <<Itoa(Head(bs).Broker)>> \o BrokerIDsAnyState(Tail(bs), statesMap)

\* A variant that takes an empty set of states for "every state".
RECURSIVE BrokerIDsAllWhenNoStates(_, _)
BrokerIDsAllWhenNoStates(bs, statesMap) ==
    IF bs = <<>> THEN <<>>
    ELSE IF statesMap = {} \/ Head(bs).BrokerState \in statesMap
         THEN <<Itoa(Head(bs).Broker)>> \o BrokerIDsAllWhenNoStates(Tail(bs), statesMap)
         ELSE BrokerIDsAllWhenNoStates(Tail(bs), statesMap)

\* The loop of BrokersWithState over the brokers of the cluster load.
RECURSIVE BrokerIDsWithState(_, _)
BrokerIDsWithState(bs, statesMap) ==
    IF bs = <<>> THEN <<>>
    ELSE IF Head(bs).BrokerState \in statesMap
         THEN <<Itoa(Head(bs).Broker)>> \o BrokerIDsWithState(Tail(bs), statesMap)
         ELSE BrokerIDsWithState(Tail(bs), statesMap)

BrokersWithState(states, load) ==
    LET call == Call("kafka_cluster_load", <<>>, load.err, load.Brokers)
        ids  == BrokerIDsWithState(load.Brokers, kafkaBrokerStatesToMap(states))
    IN  IF ~load.err.nil
        THEN [calls   |-> <<call>>,
              log     |-> <<LogEntry("error",
                              "getting Kafka cluster load from Cruise Control returned an error",
                              load.err)>>,
              brokers |-> <<>>,
              err     |-> load.err]
        ELSE [calls   |-> <<call>>,
              log     |-> [i \in 1..Len(ids) |->
                              LogEntry("info", "Kafka broker is available in Cruise Control", ids[i])],
              brokers |-> ids,
              err     |-> NoError]

-----------------------------------------------------------------------------
(* AddBrokers *)

\* the value fits an int32 and is not negative
IsBrokerHandle(v) == ~v.neg /\ v.mag[4] = 0 /\ v.mag[3] = 0 /\ v.mag[2] < HalfBase

\* brokerIDsFromStringSlice: the numeric handles of the IDs, or the error of
\* the first ID that has none.
RECURSIVE brokerIDsFromStringSlice(_)
brokerIDsFromStringSlice(ids) ==
    IF ids = <<>> THEN [err |-> NoError, ids |-> <<>>]
    ELSE LET v    == Atoi(Head(ids))
             rest == brokerIDsFromStringSlice(Tail(ids))
         IN  IF ~v.err.nil THEN [err |-> v.err, ids |-> <<>>]
             ELSE IF ~IsBrokerHandle(v)
             THEN [err |-> Error("broker id is out of range", <<Head(ids)>>), ids |-> <<>>]
             ELSE IF ~rest.err.nil THEN rest
             ELSE [err |-> NoError, ids |-> <<Int32(v)>> \o rest.ids]

\* The part of a method after its submission was answered.
AddBrokerResult(answer) ==
    IF ~answer.err.nil
    THEN IF answer.resp.nil
         THEN [pc |-> "panic", result |-> NilResult, err |-> NoError]
         ELSE [pc |-> "done",
               result |-> Result(answer.resp.TaskID, answer.resp.Date,
                                 CruiseControlTaskCompletedWithError, Sprintf(answer.err)),
               err |-> answer.err]
    ELSE [pc |-> "done",
          result |-> Result(answer.resp.TaskID, answer.resp.Date, CruiseControlTaskActive, ""),
          err |-> NoError]

AddBrokers(brokerIDs, load, answer) ==
    LET conv == brokerIDsFromStringSlice(brokerIDs)
        bws  == BrokersWithState(<<KafkaBrokerAlive, KafkaBrokerNew>>, load)
        availableBrokersMap == stringSliceToMap(bws.brokers)
        unavailableBrokerIDs == SelectSeq(brokerIDs, LAMBDA id : id \notin availableBrokersMap)
        addBrokerReq == [AllowCapacityEstimation |-> TRUE,
                         BrokerIDs               |-> conv.ids,
                         DataFrom                |-> ProposalDataSourceValidWindows,
                         UseReadyDefaultGoals    |-> TRUE]
        out == AddBrokerResult(answer)
    IN  IF Len(brokerIDs) = 0
        THEN [pc |-> "done", calls |-> <<>>, log |-> <<>>, result |-> NilResult,
              err |-> Error("no broker id(s) provided for add brokers request", <<>>)]
        ELSE IF ~conv.err.nil
        THEN [pc |-> "done", calls |-> <<>>,
              log |-> <<LogEntry("error", "failed to cast broker IDs from string slice", conv.err)>>,
              result |-> NilResult, err |-> conv.err]
        ELSE IF ~bws.err.nil
        THEN [pc |-> "done", calls |-> bws.calls,
              log |-> Append(bws.log,
                        LogEntry("error",
                                 "failed to retrieve list of available brokers from Cruise Control",
                                 bws.err)),
              result |-> NilResult, err |-> bws.err]
        ELSE IF Len(unavailableBrokerIDs) > 0
        THEN [pc |-> "done", calls |-> bws.calls,
              log |-> Append(bws.log,
                        LogEntry("error", "there are offline brokers to be added",
                                 unavailableBrokerIDs)),
              result |-> NilResult,
              err |-> Error("not all brokers are available which are meant to be added to the Kafka cluster",
                            <<>>)]
        ELSE [pc |-> out.pc,
              calls |-> Append(bws.calls, Call("add_broker", addBrokerReq, answer.err, answer.resp)),
              log |-> bws.log, result |-> out.result, err |-> out.err]

-----------------------------------------------------------------------------
(* RemoveBrokers *)

\* Replica counts the remote service reports for a broker.
ReplicaCounts == {0, 3}

\* Cluster-state answers: an error, or a replica count for some broker IDs.
ClusterStateAnswers ==
    {[err |-> e, ReplicaCountByBrokerID |-> <<>>] : e \in RemoteErrors}
    \cup
    UNION {
      {[err |-> NoError, ReplicaCountByBrokerID |-> m] : m \in [known -> ReplicaCounts]} :
      known \in SUBSET IDStrings}

\* A variant that converts every requested ID before it looks at its replicas.
RECURSIVE BrokersToRemoveConvertFirst(_, _)
BrokersToRemoveConvertFirst(brokerIDs, replicaCount) ==
    IF brokerIDs = <<>> THEN [err |-> NoError, ids |-> <<>>, log |-> <<>>]
    ELSE LET brokerID == Head(brokerIDs)
             known    == brokerID \in DOMAIN replicaCount
             replicas == IF known THEN replicaCount[brokerID] ELSE 0
             bID      == Atoi(brokerID)
             rest     == BrokersToRemoveConvertFirst(Tail(brokerIDs), replicaCount)
         IN  IF ~bID.err.nil
             THEN [err |-> bID.err, ids |-> <<>>,
                   log |-> <<LogEntry("error", "failed to cast broker ID from string to integer",
                                      <<brokerID, bID.err>>)>>]
             ELSE IF ~known \/ replicas <= 0
             THEN [rest EXCEPT !.log =
                     <<LogEntry("info",
                         "removing broker is skipped as it is either not available or has 0 partition replicas",
                         <<brokerID, replicas>>)>> \o @]
             ELSE [rest EXCEPT !.ids = <<Int32(bID)>> \o @]

\* The loop of RemoveBrokers over the requested IDs: the handles of the IDs
\* that hold replicas, or the error of the first of them that is no number.
RECURSIVE BrokersToRemove(_, _)
BrokersToRemove(brokerIDs, replicaCount) ==
    IF brokerIDs = <<>> THEN [err |-> NoError, ids |-> <<>>, log |-> <<>>]
    ELSE LET brokerID == Head(brokerIDs)
             known    == brokerID \in DOMAIN replicaCount
             replicas == IF known THEN replicaCount[brokerID] ELSE 0
             bID      == Atoi(brokerID)
             rest     == BrokersToRemove(Tail(brokerIDs), replicaCount)
         IN  IF ~known \/ replicas <= 0
             THEN [rest EXCEPT !.log =
                     <<LogEntry("info",
                         "removing broker is skipped as it is either not available or has 0 partition replicas",
                         <<brokerID, replicas>>)>> \o @]
             ELSE IF ~bID.err.nil
             THEN [err |-> bID.err, ids |-> <<>>,
                   log |-> <<LogEntry("error", "failed to cast broker ID from string to integer",
                                      <<brokerID, bID.err>>)>>]
             ELSE [rest EXCEPT !.ids = <<Int32(bID)>> \o @]

RemoveBrokerResult(answer) ==
    IF ~answer.err.nil
    THEN IF answer.resp.nil
         THEN [pc |-> "panic", result |-> NilResult, err |-> NoError]
         ELSE [pc |-> "done",
               result |-> Result(answer.resp.TaskID, answer.resp.Date,
                                 CruiseControlTaskCompletedWithError, Sprintf(answer.err)),
               err |-> answer.err]
    ELSE [pc |-> "done",
          result |-> Result(answer.resp.TaskID, answer.resp.Date, CruiseControlTaskActive, ""),
          err |-> NoError]

RemoveBrokers(brokerIDs, state, answer) ==
    LET stateCall == Call("kafka_cluster_state", <<>>, state.err, state.ReplicaCountByBrokerID)
        loop == BrokersToRemove(brokerIDs, state.ReplicaCountByBrokerID)
        rmBrokerReq == [AllowCapacityEstimation |-> TRUE,
                        BrokerIDs               |-> loop.ids,
                        DataFrom                |-> ProposalDataSourceValidWindows,
                        UseReadyDefaultGoals    |-> TRUE]
        out == RemoveBrokerResult(answer)
    IN  IF Len(brokerIDs) = 0
        THEN [pc |-> "done", calls |-> <<>>, log |-> <<>>, result |-> NilResult,
              err |-> Error("no broker id(s) provided for remove brokers request", <<>>)]
        ELSE IF ~state.err.nil
        THEN [pc |-> "done", calls |-> <<stateCall>>, log |-> <<>>, result |-> NilResult,
              err |-> state.err]
        ELSE IF ~loop.err.nil
        THEN [pc |-> "done", calls |-> <<stateCall>>, log |-> loop.log, result |-> NilResult,
              err |-> loop.err]
        ELSE IF Len(loop.ids) = 0
        THEN [pc |-> "done", calls |-> <<stateCall>>, log |-> loop.log,
              result |-> Result("", "", CruiseControlTaskCompleted, ""),
              err |-> NoError]
        ELSE [pc |-> out.pc,
              calls |-> <<stateCall, Call("remove_broker", rmBrokerReq, answer.err, answer.resp)>>,
              log |-> loop.log, result |-> out.result, err |-> out.err]

-----------------------------------------------------------------------------
(* RebalanceDisks *)

DiskStats == [NumReplicas : ReplicaCounts, Dead : BOOLEAN]

\* Broker IDs passed to RebalanceDisks, which only compares them with the
\* decimal form of the reported broker numbers: two that can match, one that cannot.
RebalanceIDStrings == { <<"1">>, <<"2">>, <<"x">> }

\* Cluster-load answers that differ in the brokers' disks.
LoadAnswersByDisks ==
    {[err |-> e, Brokers |-> <<>>] : e \in RemoteErrors}
    \cup
    UNION {
      {[err |-> NoError,
        Brokers |-> [i \in 1..Len(ns) |-> BrokerStat(ns[i], KafkaBrokerAlive, ds[i])]] :
          ds \in [1..Len(ns) -> SeqsUpTo(DiskStats, MaxDisks)]} :
      ns \in AscendingSeqs(RequestedBrokerNums, MaxBrokers)}

\* A variant that takes a dead disk without replicas for an empty disk.
RECURSIVE EmptyDisksIgnoringDead(_, _)
EmptyDisksIgnoringDead(broker, disks) ==
    IF disks = <<>> THEN <<>>
    ELSE IF Head(disks).NumReplicas <= 0
         THEN <<broker>> \o EmptyDisksIgnoringDead(broker, Tail(disks))
         ELSE EmptyDisksIgnoringDead(broker, Tail(disks))

\* The inner loop of RebalanceDisks over the disks of one broker.
RECURSIVE EmptyDisks(_, _)
EmptyDisks(broker, disks) ==
    IF disks = <<>> THEN <<>>
    ELSE IF Head(disks).NumReplicas <= 0 /\ ~Head(disks).Dead
         THEN <<broker>> \o EmptyDisks(broker, Tail(disks))
         ELSE EmptyDisks(broker, Tail(disks))

\* The outer loop of RebalanceDisks over the brokers of the cluster load.
RECURSIVE BrokersWithEmptyDisks(_, _)
BrokersWithEmptyDisks(bs, brokerIDsMap) ==
    IF bs = <<>> THEN <<>>
    ELSE IF Itoa(Head(bs).Broker) \notin brokerIDsMap
         THEN BrokersWithEmptyDisks(Tail(bs), brokerIDsMap)
         ELSE EmptyDisks(Head(bs).Broker, Head(bs).DiskState)
              \o BrokersWithEmptyDisks(Tail(bs), brokerIDsMap)

\* A variant that reports a failed submission as an active task.
RebalanceResultActiveOnError(answer) ==
    IF ~answer.err.nil /\ answer.resp.nil
    THEN [pc |-> "panic", result |-> NilResult, err |-> NoError]
    ELSE [pc |-> "done",
          result |-> Result(answer.resp.TaskID, answer.resp.Date, CruiseControlTaskActive, ""),
          err |-> answer.err]

RebalanceResult(answer) ==
    IF ~answer.err.nil
    THEN IF answer.resp.nil
         THEN [pc |-> "panic", result |-> NilResult, err |-> NoError]
         ELSE [pc |-> "done",
               result |-> Result(answer.resp.TaskID, answer.resp.Date,
                                 CruiseControlTaskCompletedWithError, Sprintf(answer.err)),
               err |-> answer.err]
    ELSE [pc |-> "done",
          result |-> Result(answer.resp.TaskID, answer.resp.Date, CruiseControlTaskActive, ""),
          err |-> NoError]

RebalanceDisks(brokerIDs, load, answer) ==
    LET loadCall == Call("kafka_cluster_load", <<>>, load.err, load.Brokers)
        brokersWithEmptyDisks == BrokersWithEmptyDisks(load.Brokers, stringSliceToMap(brokerIDs))
        rebalanceReq == [AllowCapacityEstimation       |-> TRUE,
                         DestinationBrokerIDs          |-> brokersWithEmptyDisks,
                         DataFrom                      |-> ProposalDataSourceValidWindows,
                         UseReadyDefaultGoals          |-> TRUE,
                         ExcludeRecentlyRemovedBrokers |-> TRUE]
        out == RebalanceResult(answer)
    IN  IF ~load.err.nil
        THEN [pc |-> "done", calls |-> <<loadCall>>, result |-> NilResult, err |-> load.err]
        ELSE IF Len(brokersWithEmptyDisks) = 0
        THEN [pc |-> "done", calls |-> <<loadCall>>,
              result |-> Result("", "", CruiseControlTaskCompleted, ""),
              err |-> NoError]
        ELSE [pc |-> out.pc,
              calls |-> <<loadCall, Call("rebalance", rebalanceReq, answer.err, answer.resp)>>,
              result |-> out.result, err |-> out.err]

-----------------------------------------------------------------------------
(* The calls *)

Init ==
    /\ pc = "idle"
    /\ op = ""
    /\ args = <<>>
    /\ calls = <<>>
    /\ result = NilResult
    /\ err = NoError
    /\ status = ZeroStatus
    /\ ok = FALSE
    /\ brokers = <<>>
    /\ log = <<>>

CallStatus ==
    /\ pc = "idle"
    /\ \E answer \in StateAnswers :
         LET r == Status(answer)
         IN  /\ calls' = r.calls
             /\ log' = r.log
             /\ status' = r.status
    /\ pc' = "done"
    /\ op' = "Status"
    /\ UNCHANGED <<args, result, err, ok, brokers>>

CallIsReady ==
    /\ pc = "idle"
    /\ \E answer \in StateAnswers :
         LET r == IsReady(answer)
         IN  /\ calls' = r.calls
             /\ log' = r.log
             /\ status' = r.status
             /\ ok' = r.ok
    /\ pc' = "done"
    /\ op' = "IsReady"
    /\ UNCHANGED <<args, result, err, brokers>>

CallIsUp ==
    /\ pc = "idle"
    /\ \E answer \in StateAnswers :
         LET r == IsUp(answer)
         IN  /\ calls' = r.calls
             /\ ok' = r.ok
    /\ pc' = "done"
    /\ op' = "IsUp"
    /\ UNCHANGED <<args, result, err, status, brokers, log>>

NextStatus == CallStatus \/ CallIsReady \/ CallIsUp

SpecStatus == Init /\ [][NextStatus]_vars

CallBrokersWithState ==
    /\ pc = "idle"
    /\ \E states \in SeqsUpTo(KafkaBrokerState, MaxStates), load \in LoadAnswersByState(BrokerNums) :
         LET r == BrokersWithState(states, load)
         IN  /\ args' = states
             /\ calls' = r.calls
             /\ log' = r.log
             /\ brokers' = r.brokers
             /\ err' = r.err
    /\ pc' = "done"
    /\ op' = "BrokersWithState"
    /\ UNCHANGED <<result, status, ok>>

NextBrokersWithState == CallBrokersWithState

SpecBrokersWithState == Init /\ [][NextBrokersWithState]_vars

CallAddBrokers ==
    /\ pc = "idle"
    /\ \E brokerIDs \in SeqsUpTo(IDStrings, MaxIDs), load \in LoadAnswersByState(RequestedBrokerNums),
          answer \in SubmitAnswers :
         LET r == AddBrokers(brokerIDs, load, answer)
         IN  /\ args' = brokerIDs
             /\ calls' = r.calls
             /\ log' = r.log
             /\ result' = r.result
             /\ err' = r.err
             /\ pc' = r.pc
    /\ op' = "AddBrokers"
    /\ UNCHANGED <<status, ok, brokers>>

NextAddBrokers == CallAddBrokers

SpecAddBrokers == Init /\ [][NextAddBrokers]_vars

CallRemoveBrokers ==
    /\ pc = "idle"
    /\ \E brokerIDs \in SeqsUpTo(IDStrings, MaxIDs), state \in ClusterStateAnswers,
          answer \in SubmitAnswers :
         LET r == RemoveBrokers(brokerIDs, state, answer)
         IN  /\ args' = brokerIDs
             /\ calls' = r.calls
             /\ log' = r.log
             /\ result' = r.result
             /\ err' = r.err
             /\ pc' = r.pc
    /\ op' = "RemoveBrokers"
    /\ UNCHANGED <<status, ok, brokers>>

NextRemoveBrokers == CallRemoveBrokers

SpecRemoveBrokers == Init /\ [][NextRemoveBrokers]_vars

CallRebalanceDisks ==
    /\ pc = "idle"
    /\ \E brokerIDs \in SeqsUpTo(RebalanceIDStrings, MaxIDs), load \in LoadAnswersByDisks,
          answer \in SubmitAnswers :
         LET r == RebalanceDisks(brokerIDs, load, answer)
         IN  /\ args' = brokerIDs
             /\ calls' = r.calls
             /\ result' = r.result
             /\ err' = r.err
             /\ pc' = r.pc
    /\ op' = "RebalanceDisks"
    /\ UNCHANGED <<status, ok, brokers, log>>

NextRebalanceDisks == CallRebalanceDisks

SpecRebalanceDisks == Init /\ [][NextRebalanceDisks]_vars

NextTasks == CallAddBrokers \/ CallRemoveBrokers \/ CallRebalanceDisks

SpecTasks == Init /\ [][NextTasks]_vars

Next ==
    \/ CallStatus
    \/ CallIsReady
    \/ CallIsUp
    \/ CallBrokersWithState
    \/ CallAddBrokers
    \/ CallRemoveBrokers
    \/ CallRebalanceDisks

Spec == Init /\ [][Next]_vars

-----------------------------------------------------------------------------
(* Vocabulary of the properties *)

Returned == pc = "done"
Finished == pc \in {"done", "panic"}

Submissions == SelectSeq(calls, LAMBDA c : c.endpoint \in {"add_broker", "remove_broker", "rebalance"})

\* the first remote call was a query of this endpoint and it succeeded
QueryAnswered(endpoint) ==
    Len(calls) >= 1 /\ calls[1].endpoint = endpoint /\ calls[1].err.nil

\* a decimal string: an optional sign and one or more digits
IsNumeric(s) ==
    LET ds == IF Len(s) > 0 /\ s[1] \in {"+", "-"} THEN Tail(s) ELSE s
    IN  Len(ds) > 0 /\ \A i \in 1..Len(ds) : ds[i] \in Range(Digits)

\* the integer value of the decimal string s is not negative and fits 32 bits
FitsHandle(s) ==
    LET v == Atoi(s)
    IN  /\ v.err.nil
        /\ ~v.neg
        /\ v.mag[4] = 0 /\ v.mag[3] = 0 /\ v.mag[2] < HalfBase

\* the integer value of the decimal string s is h, a non-negative 32-bit handle
ValueIsHandle(s, h) ==
    /\ FitsHandle(s)
    /\ h = Atoi(s).mag[2] * Base + Atoi(s).mag[1]

-----------------------------------------------------------------------------
(* C1: a returned task result is Active only if the submission was made and *)
(* answered without error; a submission error gives CompletedWithError with *)
(* a non-empty error description; a call skipped locally gives Completed    *)
(* with an empty task identifier.                                           *)

C1_ResultLifecycle ==
    (Returned /\ op \in {"AddBrokers", "RemoveBrokers", "RebalanceDisks"} /\ ~result.nil) =>
        /\ result.State = CruiseControlTaskActive =>
              Len(Submissions) = 1 /\ Submissions[1].err.nil
        /\ (Len(Submissions) = 1 /\ ~Submissions[1].err.nil) =>
              /\ result.State = CruiseControlTaskCompletedWithError
              /\ result.Err # ""
              /\ ~err.nil
        /\ Len(Submissions) = 0 =>
              /\ result.State = CruiseControlTaskCompleted
              /\ result.TaskID = ""

C1_Witness ==
    /\ Returned /\ op = "RebalanceDisks"
    /\ Len(Submissions) = 1 /\ ~Submissions[1].err.nil
    /\ result.State = CruiseControlTaskCompletedWithError

-----------------------------------------------------------------------------
(* C2 as stated: AddBrokers and RemoveBrokers, given an empty list or a list *)
(* with a non-numeric ID, return an error without any remote call.           *)

C2_InvalidInputNoRemoteCall ==
    (Finished /\ op \in {"AddBrokers", "RemoveBrokers"}
       /\ (args = <<>> \/ \E i \in 1..Len(args) : ~IsNumeric(args[i]))) =>
        ~err.nil /\ calls = <<>>

\* the requested IDs the cluster state reports with at least one replica
EligibleToRemove ==
    LET count == calls[1].resp
    IN  SelectSeq(args, LAMBDA id : id \in DOMAIN count /\ count[id] >= 1)

(* C2 as amended: AddBrokers reports an empty list or a non-numeric ID, and  *)
(* RemoveBrokers an empty list, with an error and no remote call.            *)
(* RemoveBrokers with a non-empty list queries the cluster state first; a    *)
(* non-numeric ID makes it fail, without a submission, only if the cluster   *)
(* state reports that ID with at least one replica, and is skipped without   *)
(* error otherwise.                                                          *)
C2_InvalidInput ==
    /\ (Finished /\ op = "AddBrokers"
          /\ (args = <<>> \/ \E i \in 1..Len(args) : ~IsNumeric(args[i]))) =>
            ~err.nil /\ calls = <<>> /\ result.nil
    /\ (Finished /\ op = "RemoveBrokers" /\ args = <<>>) =>
            ~err.nil /\ calls = <<>> /\ result.nil
    /\ (Finished /\ op = "RemoveBrokers" /\ args # <<>>) =>
            /\ Len(calls) >= 1 /\ calls[1].endpoint = "kafka_cluster_state"
            /\ calls[1].err.nil =>
                 IF \E i \in 1..Len(EligibleToRemove) : ~IsNumeric(EligibleToRemove[i])
                 THEN ~err.nil /\ result.nil /\ Len(calls) = 1
                 ELSE (\A i \in 1..Len(EligibleToRemove) : Atoi(EligibleToRemove[i]).err.nil) =>
                        (err.nil \/ (Len(Submissions) = 1 /\ err = Submissions[1].err))

C2_Witness ==
    /\ Returned /\ op = "RemoveBrokers"
    /\ \E i \in 1..Len(args) : ~IsNumeric(args[i])
    /\ QueryAnswered("kafka_cluster_state")
    /\ EligibleToRemove = <<>>
    /\ err.nil

-----------------------------------------------------------------------------
(* C3 as stated: AddBrokers, when a requested ID is not among the brokers the *)
(* cluster load reports as Alive or New, fails with an error that names       *)
(* exactly the offending IDs and makes no add submission; it submits only     *)
(* when every requested ID is Alive or New.                                   *)

\* the IDs of the brokers the cluster load reports as Alive or New
AvailableToAdd ==
    LET bs == calls[1].resp
    IN  {Itoa(bs[i].Broker) : i \in {j \in 1..Len(bs) :
                                       bs[j].BrokerState \in {KafkaBrokerAlive, KafkaBrokerNew}}}

UnavailableToAdd == SelectSeq(args, LAMBDA id : id \notin AvailableToAdd)

C3_AllOrNothingNamed ==
    (Finished /\ op = "AddBrokers" /\ QueryAnswered("kafka_cluster_load")) =>
        /\ UnavailableToAdd # <<>> =>
              /\ ~err.nil
              /\ err.ids = UnavailableToAdd
              /\ Len(Submissions) = 0
        /\ Len(Submissions) > 0 => UnavailableToAdd = <<>>

(* C3 as amended: the error is the fixed "not all brokers are available"    *)
(* error, which names no ID; exactly the offending IDs are written to the   *)
(* error log; no add submission is made; an add submission is made only     *)
(* when every requested ID is Alive or New.                                 *)
C3_AllOrNothing ==
    (Finished /\ op = "AddBrokers" /\ QueryAnswered("kafka_cluster_load")) =>
        /\ UnavailableToAdd # <<>> =>
              /\ ~err.nil /\ result.nil
              /\ err.msg = "not all brokers are available which are meant to be added to the Kafka cluster"
              /\ err.ids = <<>>
              /\ log[Len(log)].level = "error"
              /\ log[Len(log)].kv = UnavailableToAdd
              /\ Len(Submissions) = 0
        /\ UnavailableToAdd = <<>> =>
              /\ Len(Submissions) = 1
              /\ Submissions[1].endpoint = "add_broker"
              /\ Len(Submissions[1].req.BrokerIDs) = Len(args)
        /\ Len(Submissions) > 0 => UnavailableToAdd = <<>>

C3_Witness ==
    /\ Returned /\ op = "AddBrokers" /\ QueryAnswered("kafka_cluster_load")
    /\ Len(args) = 2
    /\ args[1] \in AvailableToAdd
    /\ args[2] \notin AvailableToAdd
    /\ Len(calls[1].resp) = 2
    /\ ~err.nil

-----------------------------------------------------------------------------
(* C4: RemoveBrokers with a non-empty list of numeric IDs and an answered     *)
(* cluster-state query: a requested broker is eligible iff it is reported     *)
(* with at least one replica. With no eligible broker the call returns        *)
(* Completed, an empty task ID, no error and makes no submission; otherwise   *)
(* it makes exactly one remove submission, whose broker list is exactly the   *)
(* eligible requested IDs.                                                    *)

C4_RemoveEligible ==
    (Finished /\ op = "RemoveBrokers" /\ args # <<>>
       /\ (\A i \in 1..Len(args) : IsNumeric(args[i]))
       /\ QueryAnswered("kafka_cluster_state")) =>
        IF EligibleToRemove = <<>>
        THEN /\ Returned /\ err.nil
             /\ result.State = CruiseControlTaskCompleted
             /\ result.TaskID = ""
             /\ Len(Submissions) = 0
        ELSE /\ Len(Submissions) = 1
             /\ Submissions[1].endpoint = "remove_broker"
             /\ Len(Submissions[1].req.BrokerIDs) = Len(EligibleToRemove)
             /\ \A i \in 1..Len(EligibleToRemove) :
                   LET v == Atoi(EligibleToRemove[i])
                       h == Submissions[1].req.BrokerIDs[i]
                   IN  /\ v.mag[4] = 0 /\ v.mag[3] = 0 /\ v.mag[2] < HalfBase
                       /\ h = (IF v.neg THEN 0 - 1 ELSE 1) * (v.mag[2] * Base + v.mag[1])

-----------------------------------------------------------------------------
(* C5: RebalanceDisks with an answered cluster-load query: a disk qualifies  *)
(* iff it holds zero replicas and is not dead. If no requested broker of the *)
(* cluster load has a qualifying disk, the call returns Completed with no    *)
(* task ID and makes no submission; otherwise it makes one rebalance         *)
(* submission whose destination brokers are exactly the requested brokers    *)
(* with a qualifying disk, with the exclude-recently-removed flag set.       *)

\* the requested brokers of the cluster load that have a qualifying disk
BrokersToRebalance ==
    LET bs == calls[1].resp
    IN  {bs[i].Broker : i \in {j \in 1..Len(bs) :
            /\ \E k \in 1..Len(args) : args[k] = Itoa(bs[j].Broker)
            /\ \E d \in 1..Len(bs[j].DiskState) :
                  bs[j].DiskState[d].NumReplicas = 0 /\ ~bs[j].DiskState[d].Dead}}

C5_RebalanceEligible ==
    (Finished /\ op = "RebalanceDisks" /\ QueryAnswered("kafka_cluster_load")) =>
        IF BrokersToRebalance = {}
        THEN /\ Returned /\ err.nil
             /\ result.State = CruiseControlTaskCompleted
             /\ result.TaskID = ""
             /\ Len(calls) = 1
        ELSE /\ Len(calls) = 2
             /\ calls[2].endpoint = "rebalance"
             /\ Range(calls[2].req.DestinationBrokerIDs) = BrokersToRebalance
             /\ calls[2].req.ExcludeRecentlyRemovedBrokers = TRUE

\* broker 1 is submitted; broker 2, requested too, has only a dead disk and a
\* disk with replicas, and is not.
C5_Witness ==
    /\ Returned /\ op = "RebalanceDisks" /\ QueryAnswered("kafka_cluster_load")
    /\ Len(calls) = 2
    /\ BrokersToRebalance = {1}
    /\ \E k \in 1..Len(args) : args[k] = <<"2">>
    /\ \E i \in 1..Len(calls[1].resp) :
          /\ calls[1].resp[i].Broker = 2
          /\ Len(calls[1].resp[i].DiskState) = 2
          /\ \E d \in 1..2 : calls[1].resp[i].DiskState[d].Dead
                              /\ calls[1].resp[i].DiskState[d].NumReplicas = 0

-----------------------------------------------------------------------------
(* C6: Status with an answered state query: GoalsReady is true for an empty  *)
(* goal-readiness list and false as soon as one goal is not ready;           *)
(* AnalyzerReady = proposal-ready and GoalsReady; ExecutorReady iff the      *)
(* executor reports no task in progress; MonitorReady iff the monitor        *)
(* reports running.                                                          *)

C6_StatusFlags ==
    (Returned /\ op = "Status" /\ QueryAnswered("state")) =>
        LET resp  == calls[1].resp
            goals == resp.GoalReadiness
        IN  /\ goals = <<>> => status.GoalsReady
            /\ status.GoalsReady <=>
                  \A i \in 1..Len(goals) : goals[i] = GoalReadinessStatusReady
            /\ status.AnalyzerReady <=> (resp.IsProposalReady /\ status.GoalsReady)
            /\ status.ExecutorReady <=> resp.ExecutorState = ExecutorStateTypeNoTaskInProgress
            /\ status.MonitorReady <=> resp.MonitorState = MonitorStateRunning

\* the proposal is ready, the first goal is ready and the second is not
C6_Witness ==
    /\ Returned /\ op = "Status" /\ QueryAnswered("state")
    /\ calls[1].resp.IsProposalReady
    /\ Len(calls[1].resp.GoalReadiness) = 2
    /\ calls[1].resp.GoalReadiness[1] = GoalReadinessStatusReady
    /\ calls[1].resp.GoalReadiness[2] # GoalReadinessStatusReady
    /\ ~status.GoalsReady /\ ~status.AnalyzerReady

-----------------------------------------------------------------------------
(* C7: the status and readiness queries return no error. When the state     *)
(* query fails, Status returns the zero-valued status, IsReady false and    *)
(* IsUp false; when it succeeds, IsUp returns true whatever the readiness   *)
(* flags are, and IsReady is true iff AnalyzerReady and MonitorReady of the *)
(* same snapshot.                                                           *)

C7_StatusNeverFails ==
    (Finished /\ op \in {"Status", "IsReady", "IsUp"}) =>
        /\ Returned /\ err.nil
        /\ Len(calls) = 1 /\ calls[1].endpoint = "state"
        /\ ~calls[1].err.nil =>
              /\ op = "Status" => status = ZeroStatus
              /\ op = "IsReady" => ~ok
              /\ op = "IsUp" => ~ok
        /\ calls[1].err.nil =>
              /\ op = "IsUp" => ok
              /\ op = "IsReady" =>
                    (ok <=> /\ calls[1].resp.IsProposalReady
                            /\ \A i \in 1..Len(calls[1].resp.GoalReadiness) :
                                  calls[1].resp.GoalReadiness[i] = GoalReadinessStatusReady
                            /\ calls[1].resp.MonitorState = MonitorStateRunning)

\* the service is up but neither analyzer nor monitor is ready
C7_Witness ==
    /\ Returned /\ op = "IsUp" /\ QueryAnswered("state")
    /\ ~calls[1].resp.IsProposalReady
    /\ calls[1].resp.MonitorState # MonitorStateRunning
    /\ ok

-----------------------------------------------------------------------------
(* C8: every numeric handle in an add or remove submission equals the        *)
(* integer value of the decimal string the caller passed, and an ID that is  *)
(* negative or does not fit 32 bits makes the call fail with an error        *)
(* instead of being submitted.                                               *)

\* the IDs whose handles a submission of this call carries
IDsToSubmit == IF op = "AddBrokers" THEN args ELSE EligibleToRemove

C8_ConversionExact ==
    (Finished /\ op \in {"AddBrokers", "RemoveBrokers"} /\ Len(calls) >= 1 /\ calls[1].err.nil) =>
        /\ Len(Submissions) = 1 =>
              /\ Len(Submissions[1].req.BrokerIDs) = Len(IDsToSubmit)
              /\ \A i \in 1..Len(IDsToSubmit) :
                    ValueIsHandle(IDsToSubmit[i], Submissions[1].req.BrokerIDs[i])
        /\ (\E i \in 1..Len(IDsToSubmit) :
               IsNumeric(IDsToSubmit[i]) /\ ~FitsHandle(IDsToSubmit[i])) =>
              ~err.nil /\ Len(Submissions) = 0

-----------------------------------------------------------------------------
(* C9: BrokersWithState(S) with an answered cluster-load query returns      *)
(* exactly the IDs of the brokers whose reported state is in S, the empty   *)
(* list when S is empty, and issues only the cluster-load query.            *)

C9_BrokersWithState ==
    (Finished /\ op = "BrokersWithState" /\ QueryAnswered("kafka_cluster_load")) =>
        LET bs       == calls[1].resp
            matching == {i \in 1..Len(bs) : \E k \in 1..Len(args) : args[k] = bs[i].BrokerState}
        IN  /\ Returned /\ err.nil
            /\ Range(brokers) = {Itoa(bs[i].Broker) : i \in matching}
            /\ Len(brokers) = Cardinality(matching)
            /\ args = <<>> => brokers = <<>>
            /\ Len(calls) = 1
            /\ Len(Submissions) = 0

\* two brokers reported, one in a desired state and one not
C9_Witness ==
    /\ Returned /\ op = "BrokersWithState" /\ QueryAnswered("kafka_cluster_load")
    /\ args = <<KafkaBrokerDead>>
    /\ Len(calls[1].resp) = 2
    /\ calls[1].resp[1].BrokerState = KafkaBrokerAlive
    /\ calls[1].resp[2].BrokerState = KafkaBrokerDead
    /\ Len(brokers) = 1

-----------------------------------------------------------------------------
(* C10: in every rebalance submission each destination broker appears at    *)
(* most once, also when a requested broker has two or more empty disks that *)
(* are not dead.                                                            *)

C10_DestinationsDistinct ==
    \A c \in 1..Len(calls) :
        calls[c].endpoint = "rebalance" =>
            LET dst == calls[c].req.DestinationBrokerIDs
            IN  \A i, j \in 1..Len(dst) : i # j => dst[i] # dst[j]

====
